---------------------------- MODULE Spec2Model ----------------------------
(***************************************************************************)
(* A model of the NeuroRF request pipeline: the task interpreter           *)
(* HFSSManager.apply_tasks (src/src/cad/hfss_manager.py), the session      *)
(* life cycle HFSSManager.__enter__/__exit__, the generative adapter       *)
(* LLMClient.generate / generate_json (src/src/agent/llm_client.py) and    *)
(* the orchestrator Agent.run_design (src/src/agent/agent.py); and, each   *)
(* under a specification of its own, the antenna constructors              *)
(* (src/src/antennas), Parser.parse (src/src/agent/parser.py) and          *)
(* PyAedtSession (src/src/cad/pyaedt_wrapper.py).                          *)
(*                                                                         *)
(* Python values are modelled as tagged records, so that a value of the    *)
(* wrong shape (a string where a mapping is expected, a missing key) is    *)
(* something the model can hold and the code's conversions can reject.     *)
(* Frequencies are integers in kHz; lengths are integers in micrometres.   *)
(***************************************************************************)
EXTENDS Integers, Sequences, FiniteSets, TLC

(***************************************************************************)
(* Bounds of the model.                                                    *)
(***************************************************************************)
\* longest task list handed directly to apply_tasks
MaxTasks == 2

(***************************************************************************)
(* Python values.                                                          *)
(***************************************************************************)
None == [t |-> "None"]

PyInt(n) == [t |-> "int", v |-> n]

PyStr(s) == [t |-> "str", v |-> s]

PyList(s) == [t |-> "list", v |-> s]

PyDict(f) == [t |-> "dict", v |-> f]

PyBool(b) == [t |-> "bool", v |-> b]

\* a text, as a sequence of tokens
Text(s) == [t |-> "text", v |-> s]

EmptyMap == [k \in {} |-> None]

IsDict(x) == x.t = "dict"

IsList(x) == x.t = "list"

\* Python truth value, as used by `or`, `if not f` and `freqs or [...]`
Truthy(x) ==
  CASE x.t = "None" -> FALSE
    [] x.t = "bool" -> x.v
    [] x.t = "int" -> x.v # 0
    [] x.t = "str" -> x.v # ""
    [] x.t = "list" -> Len(x.v) > 0
    [] x.t = "dict" -> DOMAIN x.v # {}
    [] OTHER -> TRUE

\* a or b
Or(a, b) == IF Truthy(a) THEN a ELSE b

\* only a mapping has a .get method; the callers below guard with HasGet
HasGet(x) == IsDict(x)

\* d.get(k) for a mapping d
Get(d, k) == IF k \in DOMAIN d.v THEN d.v[k] ELSE None

\* x in (s1, s2, ...) for a tuple of string literals
InTuple(x, S) == x.t = "str" /\ x.v \in S

\* d with key k bound to x (d[k] = x, and dict.update with one key)
Put(d, k, x) ==
  PyDict([j \in DOMAIN d.v \cup {k} |-> IF j = k THEN x ELSE d.v[j]])

\* str.lower() on the strings of the model that hold an upper-case letter
Lower(s) ==
  CASE s = "Patch" -> "patch"
    [] s = "DIPOLE" -> "dipole"
    [] s = "Dipole-fed Patch" -> "dipole-fed patch"
    [] s = "GHz" -> "ghz"
    [] s = "MHz" -> "mhz"
    [] s = "kHz" -> "khz"
    [] s = "Hz" -> "hz"
    [] OTHER -> s

\* sub in s, for the lower-case strings of the model
Contains(s, sub) ==
  CASE sub = "dipole" -> s \in {"dipole", "dipole-fed patch", "dipoles"}
    [] sub = "patch" -> s \in {"patch", "dipole-fed patch"}
    [] sub = "microstrip" -> s \in {"microstrip"}
    [] OTHER -> FALSE

(***************************************************************************)
(* HFSSManager.apply_tasks: the action vocabulary, lines 94-109.           *)
(***************************************************************************)
GeometryActionsNoModel == {"create_substrate", "create_patch", "create_dipole"}

GeometryActions == {"create_substrate", "create_patch", "create_dipole", "model"}

ExcitationActions == {"assign_excitation", "assign_port"}

BoundaryActions == {"assign_boundary", "assign_perfect_e"}

SetupActions == {"create_setup", "analysis_setup"}

AnalyzeActions == {"analyze", "solve"}

ExportActions == {"export_report", "postprocess"}

\* the record the try-body appends for a mapping t (lines 89-113); a result
\* is the f-string's literal text followed by the value it formats, if any
TaskRecord(t) ==
  LET tid == Get(t, "id")
      action == Get(t, "action")
      params == Or(Get(t, "params"), PyDict(EmptyMap))
      rec(result) == [id |-> tid, action |-> action, result |-> result]
  IN  CASE InTuple(action, GeometryActions) -> rec(<<"Geometry created: ", params>>)
        [] InTuple(action, ExcitationActions) -> rec(<<"Excitation assigned: ", params>>)
        [] InTuple(action, BoundaryActions) -> rec(<<"Boundary assigned: ", params>>)
        [] InTuple(action, SetupActions) -> rec(<<"Setup created: ", params>>)
        [] InTuple(action, AnalyzeActions) -> rec(<<"Simulation executed (Mock)">>)
        [] InTuple(action, ExportActions) -> rec(<<"Data exported (S11.csv)">>)
        [] OTHER -> rec(<<"Unknown action ", action>>)

\* log.append(record), lines 95-113 and 117
PrependRecord(lg, rec) == <<rec>> \o lg

AppendRecord(lg, rec) == Append(lg, rec)

\* the try-body raises (line 89: t.get of a value that has no get)
BodyRaises(t) == ~HasGet(t)

\* the except-handler raises as well (line 117 calls t.get("id") again)
HandlerRaises(t) == ~HasGet(t)

\* the record the handler appends when its own t.get succeeds (line 117)
ErrorRecord(t) == [id |-> Get(t, "id"), error |-> "exception"]

(***************************************************************************)
(* Exceptions.                                                             *)
(***************************************************************************)
NoErr == [type |-> "none", msg |-> <<>>]

\* an exception of the given class; msg is its message, a tuple of the
\* literal text and of the values formatted into it
Exc(type, msg) == [type |-> type, msg |-> msg]

(***************************************************************************)
(* utils/physics.py and the antenna models.  Frequencies are integers in   *)
(* kHz and lengths integers in micrometres, so c / f in metres is          *)
(* c * 1000 / f in micrometres.                                            *)
(***************************************************************************)
c == 299792458

Abs(n) == IF n < 0 THEN 0 - n ELSE n

\* floor(n * 1000 / d) for n >= 0 and d > 0, by long division so that no
\* intermediate value leaves 32 bits
Div1000(n, d) ==
  LET q0 == n \div d
      r0 == n % d
      q1 == (r0 * 10) \div d
      r1 == (r0 * 10) % d
      q2 == (r1 * 10) \div d
      r2 == (r1 * 10) % d
      q3 == (r2 * 10) \div d
  IN  q0 * 1000 + q1 * 100 + q2 * 10 + q3

\* c / f in micrometres, with the sign of f as in float division
WaveLength(f) == IF f < 0 THEN 0 - Div1000(c, Abs(f)) ELSE Div1000(c, f)

Isqrt(n) == CHOOSE r \in 0..1000 : r * r <= n /\ (r + 1) * (r + 1) > n

\* Dipole.__init__: no check of the frequency; correction in hundredths
Dipole(f) == [cls |-> "Dipole", frequency_hz |-> f, correction |-> 95]

\* PatchAntenna.__init__: no check of the frequency; eps_r in tenths
PatchAntenna(f) == [cls |-> "PatchAntenna", frequency_hz |-> f, eps_r |-> 44]

\* design_params divides by the frequency
DesignParamsRaises(ant) == ant.frequency_hz = 0

\* a full-wave length: the halving left out
DipoleParamsFullWave(ant) ==
  LET wavelength == WaveLength(ant.frequency_hz)
      length == (wavelength * ant.correction) \div 100
      radius == (wavelength * 5) \div 1000
  IN  PyDict([frequency_hz |-> PyInt(ant.frequency_hz),
              wavelength_m |-> PyInt(wavelength),
              length_m |-> PyInt(length),
              radius_m |-> PyInt(radius),
              correction |-> PyInt(ant.correction)])

\* Dipole.design_params
DipoleParams(ant) ==
  LET wavelength == WaveLength(ant.frequency_hz)
      length == (wavelength * ant.correction) \div 200
      radius == (wavelength * 5) \div 1000
  IN  PyDict([frequency_hz |-> PyInt(ant.frequency_hz),
              wavelength_m |-> PyInt(wavelength),
              length_m |-> PyInt(length),
              radius_m |-> PyInt(radius),
              correction |-> PyInt(ant.correction)])

\* PatchAntenna.design_params; (2 / (1 + eps_r)) ** 0.5 in thousandths
PatchParams(ant) ==
  LET fr == ant.frequency_hz
      root == Isqrt((20 * 1000000) \div (10 + ant.eps_r))
      half == IF fr < 0 THEN 0 - Div1000(c, 2 * Abs(fr)) ELSE Div1000(c, 2 * fr)
      W == (half * root) \div 1000
      L == (W * 95) \div 100
  IN  PyDict([frequency_hz |-> PyInt(fr),
              eps_r |-> PyInt(ant.eps_r),
              width_m |-> PyInt(W),
              length_m |-> PyInt(L)])

\* the parameters of the class at 1 GHz, whatever the object's frequency
DesignParamsAtOneGHz(ant) ==
  IF ant.cls = "Dipole" THEN DipoleParams(Dipole(1000000))
  ELSE PatchParams(PatchAntenna(1000000))

\* ant.design_params(), by the class of the object
DesignParams(ant) ==
  IF ant.cls = "Dipole" THEN DipoleParams(ant) ELSE PatchParams(ant)

(***************************************************************************)
(* Parser.parse.  A request text is a sequence of tokens: a word           *)
(* [w |-> s], or a number followed by a unit, [num10 |-> n, unit |-> u],   *)
(* with the number in tenths (24 GHz-tenths is "2.4GHz").                  *)
(***************************************************************************)
\* FREQ_RE, line 22: a number, then one of the four units in any case
IsFreqToken(tok) ==
  "unit" \in DOMAIN tok /\ Lower(tok.unit) \in {"ghz", "mhz", "khz", "hz"}

\* the number taken as kilohertz whatever the unit
TokenFrequencyNoUnit(tok) == tok.num10 \div 10

\* lines 57-64: the unit's factor, here to kHz
TokenFrequency(tok) ==
  LET unit == Lower(tok.unit)
  IN  CASE unit = "ghz" -> tok.num10 * 100000
        [] unit = "mhz" -> tok.num10 * 100
        [] unit = "khz" -> tok.num10 \div 10
        [] OTHER -> tok.num10 \div 10000

\* Parser._extract_frequencies: one frequency per match, left to right
RECURSIVE ExtractFrequencies(_)
ExtractFrequencies(text) ==
  IF text = <<>> THEN <<>>
  ELSE IF IsFreqToken(Head(text))
       THEN <<PyInt(TokenFrequency(Head(text)))>> \o ExtractFrequencies(Tail(text))
       ELSE ExtractFrequencies(Tail(text))

\* sub in text.lower()
TextContains(text, sub) ==
  \E k \in 1..Len(text) :
    /\ "w" \in DOMAIN text[k]
    /\ Contains(Lower(text[k].w), sub)

\* Parser.parse, lines 35-50
Parse(text) ==
  LET hint1 == IF TextContains(text, "dipole") THEN PyStr("dipole") ELSE None
      hint2 == IF TextContains(text, "patch") \/ TextContains(text, "microstrip")
               THEN PyStr("patch") ELSE hint1
  IN  PyDict([intent |-> PyStr("design_antenna"),
              raw |-> Text(text),
              antenna_type |-> hint2,
              frequencies_hz |-> PyList(ExtractFrequencies(text))])

(***************************************************************************)
(* LLMClient.generate.  A provider says, for each call shape, whether the  *)
(* installed package exposes it and how the call ends.                     *)
(***************************************************************************)
Shapes ==
  <<"generate_text", "generate", "text.generate", "models.generate",
    "get_model", "chat.create">>

ShapeSet == {Shapes[k] : k \in 1..Len(Shapes)}

\* how a call of a shape ends: the package does not expose it ("absent"),
\* it returns text ("ok") or it raises.  "TypeError_ok" and
\* "TypeError_raise" are genai.generate refusing its keyword arguments
\* (line 100) and then returning or raising on the retry of line 101;
\* "no_generate_content" is get_model returning an object without that
\* method (line 125)
OutcomesOf(shape) ==
  CASE shape = "generate" -> {"absent", "ok", "raise", "TypeError_ok", "TypeError_raise"}
    [] shape = "get_model" -> {"absent", "ok", "raise", "no_generate_content"}
    [] OTHER -> {"absent", "ok", "raise"}

GenerationFailed == Exc("RuntimeError", <<"Failed to call Gemini API: ">>)

GenerateSwallowing(P) ==
  IF P.provider # "gemini"
  THEN Exc("NotImplementedError", <<"Provider is not implemented">>)
  ELSE IF ~P.importable
  THEN Exc("RuntimeError", <<"Gemini client not available.">>)
  ELSE NoErr

\* the outcome of generate, lines 65-161: NoErr when it returns the
\* provider's text, or the exception it raises
Generate(P) ==
  IF P.provider # "gemini"
  THEN Exc("NotImplementedError", <<"Provider is not implemented">>)
  ELSE IF ~P.importable
  THEN Exc("RuntimeError", <<"Gemini client not available.">>)
  ELSE IF P.shape["generate_text"] # "absent"
  THEN (IF P.shape["generate_text"] = "ok" THEN NoErr ELSE GenerationFailed)
  ELSE IF P.shape["generate"] # "absent"
  THEN (IF P.shape["generate"] \in {"ok", "TypeError_ok"} THEN NoErr
        ELSE GenerationFailed)
  ELSE IF P.shape["text.generate"] # "absent"
  THEN (IF P.shape["text.generate"] = "ok" THEN NoErr ELSE GenerationFailed)
  ELSE IF P.shape["models.generate"] # "absent"
  \* line 117: the handler reads resp, unbound when the call raised
  THEN (IF P.shape["models.generate"] = "ok" THEN NoErr ELSE GenerationFailed)
  ELSE IF P.shape["get_model"] = "ok" THEN NoErr
  ELSE IF P.shape["chat.create"] = "ok" THEN NoErr
  ELSE GenerationFailed

\* one provider call and how it ended
Attempt(P, shape) ==
  [shape |-> shape,
   raised |-> P.shape[shape] \in {"raise", "TypeError_raise"}]

\* the provider calls generate makes, in order, up to the one that returns:
\* the first of the shapes 1 to 4 the package exposes and no other, or else
\* get_model and, unless that returned text, chat.create
Attempts(P) ==
  IF P.provider # "gemini" \/ ~P.importable THEN <<>>
  ELSE LET first == {k \in 1..4 : P.shape[Shapes[k]] # "absent"}
       IN  IF first # {}
           THEN <<Attempt(P, Shapes[CHOOSE k \in first : \A j \in first : k <= j])>>
           ELSE (IF P.shape["get_model"] # "absent"
                 THEN <<Attempt(P, "get_model")>> ELSE <<>>)
                  \o (IF P.shape["get_model"] # "ok" /\ P.shape["chat.create"] # "absent"
                      THEN <<Attempt(P, "chat.create")>> ELSE <<>>)

(***************************************************************************)
(* LLMClient._extract_json and json.loads.  A raw text is a sequence of    *)
(* tokens: "{" and "}" are bare braces, "OBJ" is the text of one           *)
(* well-formed JSON object (it begins with a brace and ends with one),     *)
(* anything else holds no brace.                                           *)
(***************************************************************************)
OpensBrace(tok) == tok \in {"{", "OBJ"}

ClosesBrace(tok) == tok \in {"}", "OBJ"}

\* JSON_EXTRACT_RE.search: the leftmost "{" that a "}" follows, up to the
\* last "}" (the pattern is greedy and "." matches newlines)
RegexSpan(raw) ==
  LET starts == {k \in 1..Len(raw) : OpensBrace(raw[k])}
      ends == {k \in 1..Len(raw) : ClosesBrace(raw[k])}
  IN  IF starts = {} \/ ends = {} THEN <<>>
      ELSE LET s == CHOOSE k \in starts : \A j \in starts : k <= j
               e == CHOOSE k \in ends : \A j \in ends : k >= j
           IN  IF e >= s THEN <<s, e>> ELSE <<>>

\* text.find('{') and text.rfind('}'), lines 169-172
FindSpan(raw) ==
  LET starts == {k \in 1..Len(raw) : OpensBrace(raw[k])}
      ends == {k \in 1..Len(raw) : ClosesBrace(raw[k])}
  IN  IF starts = {} \/ ends = {} THEN <<>>
      ELSE LET s == CHOOSE k \in starts : \A j \in starts : k <= j
               e == CHOOSE k \in ends : \A j \in ends : k >= j
           IN  IF e >= s THEN <<s, e>> ELSE <<>>

\* _extract_json: [err, text]
ExtractJson(raw) ==
  LET m == RegexSpan(raw)
      f == FindSpan(raw)
  IN  IF m # <<>> THEN [err |-> NoErr, text |-> SubSeq(raw, m[1], m[2])]
      ELSE IF f # <<>> THEN [err |-> NoErr, text |-> SubSeq(raw, f[1], f[2])]
      ELSE [err |-> Exc("ValueError", <<"No JSON object found in LLM output">>),
            text |-> <<>>]

\* json.loads(jtext) inside generate_json, lines 193-196; obj is the value
\* the text "OBJ" stands for
LoadJson(jtext, raw, obj) ==
  IF jtext = <<"OBJ">> THEN [err |-> NoErr, value |-> obj]
  ELSE IF jtext = <<"{", "}">> THEN [err |-> NoErr, value |-> PyDict(EmptyMap)]
  ELSE [err |-> Exc("ValueError", <<"Failed to parse JSON from LLM output: ", raw>>),
        value |-> None]

(***************************************************************************)
(* HFSSManager: the session.  A session is None, the mock mapping          *)
(* {"connected": ..., "project": ...} or the backend's Hfss object.        *)
(***************************************************************************)
MockSession(connected) ==
  PyDict([connected |-> PyBool(connected), project |-> PyStr("NeuroRF_project")])

HfssSession == [t |-> "Hfss"]

\* getattr(session, name, None) is set: only the backend object has the
\* attributes close, modeler and solve
HasAttr(session, name) == session.t = "Hfss"

\* __init__ then __enter__, lines 21-52: the manager's fields afterwards.
\* use is the constructor's use_pyaedt; importable and ctorOk say whether
\* importing pyaedt and constructing Hfss succeed
Enter(use, importable, ctorOk) ==
  LET probed == use = None
      module == probed /\ importable
      use1 == IF probed THEN PyBool(importable) ELSE use
  IN  IF Truthy(use1) /\ module
      THEN IF ctorOk
           THEN [session |-> HfssSession, use_pyaedt |-> use1]
           ELSE [session |-> MockSession(FALSE), use_pyaedt |-> PyBool(FALSE)]
      ELSE [session |-> MockSession(TRUE), use_pyaedt |-> use1]

\* build_dipole, lines 66-81
BuildDipole(dipole_params, use, session) ==
  PyDict([type |-> PyStr("dipole"),
          params |-> dipole_params,
          built_in_hfss |-> PyBool(Truthy(use)),
          note |-> IF Truthy(use) /\ HasAttr(session, "modeler")
                   THEN PyStr("Real HFSS build executed (details omitted).")
                   ELSE PyStr("Mock build; pyaedt not available.")])

\* run_simulation, lines 120-140
RunSimulation(built_model, use, session) ==
  LET params == Get(built_model, "params")
  IN  IF Truthy(use) /\ HasAttr(session, "solve")
      THEN PyDict([status |-> PyStr("ok"),
                   resonant_freq_hz |->
                     IF "frequency_hz" \in DOMAIN params.v
                     THEN params.v["frequency_hz"] ELSE PyInt(0)])
      ELSE LET lst == Get(params, "frequency_hz_list")
               freq == Or(Get(params, "frequency_hz"),
                          IF Truthy(lst) THEN lst.v[1] ELSE lst)
           IN  PyDict([status |-> PyStr("mock"),
                       resonant_freq_hz |-> IF Truthy(freq) THEN freq ELSE PyInt(1000000),
                       input_impedance_ohm |-> PyInt(73),
                       gain_dbi |-> PyInt(215)])

(***************************************************************************)
(* Agent.run_design: the helpers of its steps.                             *)
(***************************************************************************)
\* lines 68-73: the class the antenna-type string selects
SelectClass(antenna_type) ==
  IF Contains(Lower(antenna_type), "dipole") THEN "Dipole"
  ELSE IF Contains(Lower(antenna_type), "patch") THEN "PatchAntenna"
  ELSE "Dipole"

\* float(f) raises for a value that is no number
FloatRaises(f) == f.t \notin {"int", "bool"}

\* lines 64-73: the antennas of the frequency list fl, or the exception of
\* the first entry that raises
RECURSIVE BuildAntennas(_, _)
BuildAntennas(fl, antenna_type) ==
  IF fl = <<>> THEN [err |-> NoErr, antennas |-> <<>>]
  ELSE LET f == Head(fl)
           rest == BuildAntennas(Tail(fl), antenna_type)
       IN  IF ~Truthy(f) THEN rest
           ELSE IF antenna_type.t # "str"
           THEN [err |-> Exc("AttributeError", <<"object has no attribute 'lower'">>),
                 antennas |-> <<>>]
           ELSE IF FloatRaises(f)
           THEN [err |-> Exc(IF f.t = "str" THEN "ValueError" ELSE "TypeError",
                             <<"could not convert to float">>),
                 antennas |-> <<>>]
           ELSE IF rest.err # NoErr THEN rest
           ELSE [err |-> NoErr,
                 antennas |->
                   <<IF SelectClass(antenna_type.v) = "Dipole"
                     THEN Dipole(f.v) ELSE PatchAntenna(f.v)>> \o rest.antennas]

\* dict(t), line 88
DictOf(t) ==
  CASE IsDict(t) -> [err |-> NoErr, value |-> t]
    [] t.t = "list" /\ t.v = <<>> -> [err |-> NoErr, value |-> PyDict(EmptyMap)]
    [] t.t = "str" /\ t.v = "" -> [err |-> NoErr, value |-> PyDict(EmptyMap)]
    [] t.t = "str" /\ t.v # "" ->
         [err |-> Exc("ValueError", <<"dictionary update sequence element">>),
          value |-> None]
    [] OTHER ->
         [err |-> Exc("TypeError", <<"object is not iterable">>), value |-> None]

\* t_copy.setdefault("params", {}).update({key: value}), lines 91 and 93.
\* The copy is shallow: a params mapping the task already holds is the one
\* object both the copy and the original task refer to, so the update shows
\* in orig as well
MergeParams(copy, orig, key, value) ==
  IF "params" \in DOMAIN copy.v
  THEN LET held == copy.v["params"]
       IN  IF IsDict(held)
           THEN [err |-> NoErr,
                 copy |-> Put(copy, "params", Put(held, key, value)),
                 orig |-> Put(orig, "params", Put(held, key, value))]
           ELSE [err |-> Exc("AttributeError", <<"object has no attribute 'update'">>),
                 copy |-> copy, orig |-> orig]
  ELSE [err |-> NoErr,
        copy |-> Put(copy, "params", Put(PyDict(EmptyMap), key, value)),
        orig |-> orig]

\* lines 88-94 for one task t
EnrichTask(t, geometry, freqs) ==
  LET d == DictOf(t)
  IN  IF d.err # NoErr THEN [err |-> d.err, copy |-> None, orig |-> t]
      ELSE IF InTuple(Get(d.value, "action"), {"create_geometry", "model"})
      THEN MergeParams(d.value, t, "geometry", geometry)
      ELSE IF InTuple(Get(d.value, "action"), {"setup_analysis", "analysis_setup"})
      THEN MergeParams(d.value, t, "frequency_hz_list", freqs)
      ELSE [err |-> NoErr, copy |-> d.value, orig |-> t]

\* lines 86-94: tasks_for_model, and the tasks of the spec as the loop
\* leaves them; copies holds the tasks enriched before one raised
RECURSIVE EnrichTasks(_, _, _)
EnrichTasks(ts, geometry, freqs) ==
  IF ts = <<>> THEN [err |-> NoErr, copies |-> <<>>, origs |-> <<>>]
  ELSE LET one == EnrichTask(Head(ts), geometry, freqs)
       IN  IF one.err # NoErr
           THEN [err |-> one.err, copies |-> <<>>, origs |-> ts]
           ELSE LET rest == EnrichTasks(Tail(ts), geometry, freqs)
                IN  [err |-> rest.err,
                     copies |-> <<one.copy>> \o rest.copies,
                     origs |-> <<one.orig>> \o rest.origs]

(***************************************************************************)
(* State.                                                                  *)
(***************************************************************************)
VARIABLES
  entry,        \* the operation the behaviour calls: "apply_tasks" or "run_design"
  pc,           \* position in the running operation
  err,          \* the exception propagating out of it, NoErr if none
  tasks,        \* apply_tasks: the list argument
  i,            \* apply_tasks: index of the next task of the for loop
  log,          \* apply_tasks: the local log
  status,       \* apply_tasks: the local status
  raised,       \* history: indices of the tasks whose try-body raised
  user_request, \* run_design: the request text
  use_arg,      \* run_design: the use_pyaedt argument
  spec,         \* run_design: the parser's result
  raw,          \* generate_json: the provider's text
  genai,        \* generate: the provider package imported, None before
  attempts,     \* generate: the provider calls made, in order
  parsed,       \* run_design: the generative spec
  antenna_type, \* run_design: the resolved antenna type
  freqs,        \* run_design: the resolved frequency list
  antennas,     \* run_design: the antenna objects
  ant,          \* run_design: index of the antenna of the for loop
  ant_params,   \* run_design: design_params of the current antenna
  tasks_for_model, \* run_design: the enriched tasks of the current antenna
  built,        \* run_design: the descriptor of the current antenna
  task_exec,    \* run_design: apply_tasks' result for the current antenna
  results,      \* run_design: results["antennas"]
  session,      \* HFSSManager.session
  use_pyaedt,   \* HFSSManager.use_pyaedt
  opens,        \* history: number of __enter__ calls
  closes,       \* history: number of __exit__ calls
  calls,        \* history: the manager calls, each with the session it met
  cls,          \* antenna constructor: the class called
  frequency_hz, \* antenna constructor: its frequency argument
  again,        \* Parser.parse: the result of parsing the same text again
  mock,         \* PyAedtSession.mock
  app,          \* PyAedtSession.app
  session_log,  \* PyAedtSession.log
  returned      \* history: the capability calls made and what each returned

applyVars == <<tasks, i, log, status, raised>>

llmVars == <<raw, genai, attempts>>

designVars ==
  <<user_request, use_arg, spec, parsed, antenna_type, freqs, antennas, ant,
    ant_params, tasks_for_model, built, task_exec, results>>

mgrVars == <<session, use_pyaedt, opens, closes, calls>>

\* the state of the operations run_design does not reach when they are
\* called on their own: the antenna constructors, a second Parser.parse
\* and PyAedtSession
unitVars == <<cls, frequency_hz, again, mock, app, session_log, returned>>

vars == <<entry, pc, err, applyVars, llmVars, designVars, mgrVars, unitVars>>

\* before run_design has run: its locals hold nothing, no manager exists
InitLocals ==
  /\ spec = None /\ raw = None /\ genai = None /\ attempts = <<>>
  /\ parsed = None /\ antenna_type = None /\ freqs = None
  /\ antennas = <<>> /\ ant = 1 /\ ant_params = None
  /\ tasks_for_model = <<>> /\ built = None /\ task_exec = None
  /\ results = <<>>
  /\ session = None /\ use_pyaedt = None
  /\ opens = 0 /\ closes = 0 /\ calls = <<>>
  /\ cls = "none" /\ frequency_hz = 0 /\ again = None
  /\ mock = TRUE /\ app = None /\ session_log = <<>> /\ returned = <<>>

(***************************************************************************)
(* Inputs of a direct call of apply_tasks.                                 *)
(***************************************************************************)
Vocabulary ==
  GeometryActions \cup ExcitationActions \cup BoundaryActions
    \cup SetupActions \cup AnalyzeActions \cup ExportActions

\* action strings outside the vocabulary (two of them are the strings
\* run_design tests for at agent.py lines 90 and 92)
OtherActions == {"create_geometry", "setup_analysis", "Model"}

\* a mapping with the given keys left out when the value is absent
TaskMapping(id, action, params) ==
  PyDict([k \in ({"id" : x \in id} \cup {"action" : x \in action}
                   \cup {"params" : x \in params}) |->
            CASE k = "id" -> CHOOSE x \in id : TRUE
              [] k = "action" -> CHOOSE x \in action : TRUE
              [] OTHER -> CHOOSE x \in params : TRUE])

\* task mappings without params: every action string (or none) under one
\* id, and a few actions under another id or none, so that lists with
\* descending, duplicated, non-contiguous and missing ids exist
PlainTasks ==
  { TaskMapping({PyInt(5)}, action, {}) :
      action \in {{}} \cup {{PyStr(s)} : s \in Vocabulary \cup OtherActions} }
  \cup
  { TaskMapping(id, {PyStr(s)}, {}) :
      id \in {{}, {PyInt(1)}}, s \in {"create_dipole", "analyze", "Model"} }

\* task mappings that carry params
ParamTasks ==
  { TaskMapping({PyInt(1)}, {PyStr(s)}, {PyDict([w |-> PyInt(3)])}) :
      s \in {"model", "create_geometry"} }
  \cup { TaskMapping({PyInt(1)}, {PyStr("solve")}, {PyDict(EmptyMap)}) }

\* list entries that are no mapping
NonMappings == {PyStr("build"), PyInt(7), PyList(<<>>), None}

TaskEntries == PlainTasks \cup ParamTasks \cup NonMappings

SeqsUpTo(S, n) == UNION { [1..k -> S] : k \in 0..n }

(***************************************************************************)
(* HFSSManager.apply_tasks, one iteration of the for loop per step.        *)
(***************************************************************************)
\* lines 85-86: the locals at entry
ApplyEnter(ts) ==
  /\ tasks' = ts
  /\ i' = 1
  /\ log' = <<>>
  /\ status' = "ok"
  /\ raised' = {}

\* lines 87-117: one task
ApplyTask ==
  /\ pc = "apply_loop"
  /\ i <= Len(tasks)
  /\ LET t == tasks[i] IN
       IF ~BodyRaises(t)
       THEN /\ log' = AppendRecord(log, TaskRecord(t))
            /\ i' = i + 1
            /\ UNCHANGED <<pc, err, status, raised>>
       ELSE /\ status' = "error"
            /\ raised' = raised \cup {i}
            /\ IF HandlerRaises(t)
               THEN /\ pc' = IF entry = "apply_tasks" THEN "apply_raised" ELSE "exit"
                    /\ err' = Exc("AttributeError", <<"object has no attribute 'get'">>)
                    /\ UNCHANGED <<log, i>>
               ELSE /\ log' = AppendRecord(log, ErrorRecord(t))
                    /\ i' = i + 1
                    /\ UNCHANGED <<pc, err>>
  /\ UNCHANGED <<entry, tasks, llmVars, designVars, mgrVars>>
  /\ UNCHANGED unitVars

\* line 119: the loop is over, the result is {"status": status, "log": log}
ApplyReturn ==
  /\ pc = "apply_loop"
  /\ i > Len(tasks)
  /\ entry = "apply_tasks"
  /\ pc' = "apply_returned"
  /\ UNCHANGED <<entry, err, applyVars, llmVars, designVars, mgrVars>>
  /\ UNCHANGED unitVars

InitApply ==
  /\ entry = "apply_tasks"
  /\ pc = "apply_loop"
  /\ err = NoErr
  /\ tasks \in SeqsUpTo(TaskEntries, MaxTasks)
  /\ i = 1
  /\ log = <<>>
  /\ status = "ok"
  /\ raised = {}
  /\ user_request = None /\ use_arg = None
  /\ InitLocals

NextApply == ApplyTask \/ ApplyReturn

SpecApply == InitApply /\ [][NextApply]_vars

(***************************************************************************)
(* Inputs of run_design: the request, the provider, its text.              *)
(***************************************************************************)
\* longest task list of a generative spec
MaxSpecTasks == 2

Word(s) == [w |-> s]

Freq(n, u) == [num10 |-> n, unit |-> u]

Requests ==
  { <<Word("antenna")>>,
    <<Word("Patch"), Freq(24, "GHz"), Freq(58, "GHz")>>,
    <<Word("DIPOLE"), Freq(9150, "MHz")>>,
    <<Word("dipole"), Word("patch")>> }

\* packages that expose at most two call shapes
ProviderShapes ==
  { [s \in ShapeSet |-> IF s = s1 THEN o1 ELSE IF s = s2 THEN o2 ELSE "absent"] :
      <<s1, o1, s2, o2>> \in
        { q \in ShapeSet \X {"absent", "ok", "raise", "TypeError_ok",
                             "TypeError_raise", "no_generate_content"}
                \X ShapeSet \X {"absent", "ok", "raise", "TypeError_ok",
                                "TypeError_raise", "no_generate_content"} :
            q[2] \in OutcomesOf(q[1]) /\ q[4] \in OutcomesOf(q[3]) } }

NoShapes == [s \in ShapeSet |-> "absent"]

Providers ==
  { [provider |-> "gemini", importable |-> TRUE, shape |-> sh] : sh \in ProviderShapes }
  \cup { [provider |-> "gemini", importable |-> FALSE, shape |-> NoShapes],
         [provider |-> "openai", importable |-> TRUE, shape |-> NoShapes] }

RawTexts ==
  { <<"OBJ">>, <<"prose", "OBJ", "prose">>, <<"fence", "OBJ", "fence">>,
    <<"[", "OBJ", "]">>, <<"{", "}">>, <<"prose">>, <<>>,
    <<"}", "prose", "{">>, <<"{", "prose", "}", "OBJ">>, <<"OBJ", "OBJ">> }

\* the mapping with the given (key, value) pairs
DictFrom(pairs) ==
  PyDict([k \in {q[1] : q \in pairs} |-> (CHOOSE q \in pairs : q[1] = k)[2]])

\* a key with each of the given values, or no key at all
Optional(key, values) == {{}} \cup {{<<key, x>>} : x \in values}

TypeOptions ==
  Optional("antenna_type",
           {PyStr("dipole"), PyStr("Patch"), PyStr("Dipole-fed Patch"),
            PyStr("loop"), PyInt(5)})

FreqOptions ==
  Optional("frequencies_hz",
           {PyList(<<>>), PyList(<<PyInt(2400000)>>),
            PyList(<<PyInt(2400000), PyInt(5800000)>>),
            PyList(<<PyInt(0), PyInt(5800000)>>), PyList(<<PyInt(0)>>),
            PyList(<<PyInt(0 - 2400000)>>), PyList(<<PyStr("high")>>),
            PyInt(5800000)})

SingleFreqOptions == Optional("frequency_hz", {PyInt(915000)})

SpecTaskEntries ==
  { DictFrom({<<"id", PyInt(1)>>, <<"action", PyStr("create_dipole")>>,
              <<"params", PyDict(EmptyMap)>>}),
    DictFrom({<<"id", PyInt(2)>>, <<"action", PyStr("model")>>,
              <<"params", PyDict([w |-> PyInt(3)])>>}),
    DictFrom({<<"id", PyInt(3)>>, <<"action", PyStr("analysis_setup")>>}),
    DictFrom({<<"id", PyInt(4)>>, <<"action", PyStr("model")>>,
              <<"params", PyDict([geometry |-> PyStr("sketch")])>>}),
    DictFrom({<<"id", PyInt(5)>>, <<"action", PyStr("model")>>,
              <<"params", PyStr("large")>>}),
    DictFrom({<<"id", PyInt(6)>>, <<"action", PyStr("mesh")>>}),
    PyStr("build"),
    PyList(<<>>) }

TaskOptions ==
  Optional("tasks",
           {PyStr("none"), PyList(<<>>)}
             \cup {PyList(ts) : ts \in SeqsUpTo(SpecTaskEntries, MaxSpecTasks) \ {<<>>}})

BaseTasks ==
  {<<"tasks", PyList(<<DictFrom({<<"id", PyInt(1)>>,
                                 <<"action", PyStr("create_dipole")>>,
                                 <<"params", PyDict(EmptyMap)>>})>>)>>}

\* the JSON objects a provider's text may hold: every antenna type and
\* frequency field with one task list, and every task list with one
\* antenna type and two frequencies
Payloads ==
  { DictFrom(ty \cup fr \cup sf \cup BaseTasks) :
      ty \in TypeOptions, fr \in FreqOptions, sf \in SingleFreqOptions }
  \cup
  { DictFrom({<<"antenna_type", PyStr("Patch")>>,
              <<"frequencies_hz", PyList(<<PyInt(2400000), PyInt(5800000)>>)>>}
             \cup tk) :
      tk \in TaskOptions }

(***************************************************************************)
(* Agent.run_design, lines 35-110.                                         *)
(***************************************************************************)
\* the exception e leaves run_design (no session is open)
Raise(e) == pc' = "raised" /\ err' = e

RaiseSkippingExit(e) == pc' = "raised" /\ err' = e

\* the exception e leaves the with block: __exit__ runs next
RaiseInSession(e) == pc' = "exit" /\ err' = e

\* a manager call, with the session and the enter and exit counts it met
Called(op) ==
  Append(calls, [op |-> op, session |-> session, opens |-> opens, closes |-> closes])

\* lines 44-45: Parser.parse and build_cot_prompt
RunParse ==
  /\ pc = "parse"
  /\ spec' = Parse(user_request)
  /\ pc' = "generate"
  /\ UNCHANGED <<entry, err, applyVars, llmVars, mgrVars, user_request, use_arg,
                 parsed, antenna_type, freqs, antennas, ant, ant_params,
                 tasks_for_model, built, task_exec, results>>
  /\ UNCHANGED unitVars

\* line 50, generate_json line 189: the provider is called
RunGenerate ==
  /\ pc = "generate"
  /\ \E P \in Providers :
       /\ genai' = P
       /\ attempts' = Attempts(P)
       /\ IF Generate(P) = NoErr
          THEN /\ raw' \in {Text(r) : r \in RawTexts}
               /\ pc' = "extract"
               /\ err' = err
          ELSE /\ Raise(Generate(P))
               /\ raw' = raw
  /\ UNCHANGED <<entry, applyVars, designVars, mgrVars>>
  /\ UNCHANGED unitVars

\* generate_json lines 192-196: extract and parse; obj is the value the
\* JSON object of the text stands for.  The locals of generate_json end
\* with its return
RunLoadJson ==
  /\ pc = "extract"
  /\ \E obj \in Payloads :
       LET x == ExtractJson(raw.v)
           v == LoadJson(x.text, raw.v, obj)
       IN  IF x.err # NoErr THEN Raise(x.err) /\ UNCHANGED <<parsed, llmVars>>
           ELSE IF v.err # NoErr THEN Raise(v.err) /\ UNCHANGED <<parsed, llmVars>>
           ELSE /\ pc' = "normalize"
                /\ parsed' = v.value
                /\ raw' = None
                /\ genai' = None
                /\ attempts' = <<>>
                /\ err' = err
  /\ UNCHANGED <<entry, applyVars, mgrVars, user_request, use_arg, spec,
                 antenna_type, freqs, antennas, ant, ant_params,
                 tasks_for_model, built, task_exec, results>>
  /\ UNCHANGED unitVars

\* line 57: the tasks field is a non-empty list
TasksUsableOrEmpty(ts) == IsList(ts)

TasksUsable(ts) == IsList(ts) /\ Len(ts.v) > 0

\* the parser's hint ahead of the generative output
ResolveTypeHintFirst(gen, hints) ==
  Or(Or(Get(hints, "antenna_type"), Get(gen, "antenna_type")), PyStr("dipole"))

\* line 53: the antenna type, from the generative output gen, the parser's
\* result hints or the literal
ResolveType(gen, hints) ==
  Or(Or(Get(gen, "antenna_type"), Get(hints, "antenna_type")), PyStr("dipole"))

\* lines 53-61
RunNormalize ==
  /\ pc = "normalize"
  /\ IF ~HasGet(parsed)
     THEN /\ Raise(Exc("AttributeError", <<"object has no attribute 'get'">>))
          /\ UNCHANGED <<antenna_type, freqs>>
     ELSE LET ty == ResolveType(parsed, spec)
              fr == Or(Or(Get(parsed, "frequencies_hz"), Get(spec, "frequencies_hz")),
                       PyList(<<>>))
              ts == Get(parsed, "tasks")
          IN  IF ~TasksUsable(ts)
              THEN /\ Raise(Exc("ValueError",
                                <<"LLM output must include a non-empty 'tasks' array">>))
                   /\ UNCHANGED <<antenna_type, freqs>>
              ELSE /\ antenna_type' = ty
                   /\ freqs' = IF fr.t = "int" THEN PyList(<<fr>>) ELSE fr
                   /\ pc' = "build_antennas"
                   /\ err' = err
  /\ UNCHANGED <<entry, applyVars, llmVars, mgrVars, user_request, use_arg, spec,
                 parsed, antennas, ant, ant_params, tasks_for_model, built,
                 task_exec, results>>
  /\ UNCHANGED unitVars

\* lines 64-75
RunBuildAntennas ==
  /\ pc = "build_antennas"
  /\ LET fl == IF Truthy(freqs) THEN freqs.v ELSE <<Get(parsed, "frequency_hz")>>
         r == BuildAntennas(fl, antenna_type)
     IN  IF r.err # NoErr THEN Raise(r.err) /\ antennas' = antennas
         ELSE pc' = "open" /\ antennas' = r.antennas /\ err' = err
  /\ UNCHANGED <<entry, applyVars, llmVars, mgrVars, user_request, use_arg, spec,
                 parsed, antenna_type, freqs, ant, ant_params, tasks_for_model,
                 built, task_exec, results>>
  /\ UNCHANGED unitVars

\* lines 79-82: the flag, HFSSManager(...) and __enter__
RunOpen ==
  /\ pc = "open"
  /\ \E env \in BOOLEAN, importable \in BOOLEAN, ctorOk \in BOOLEAN :
       LET flag == IF use_arg = None THEN PyBool(env) ELSE use_arg
           m == Enter(flag, importable, ctorOk)
       IN  /\ session' = m.session
           /\ use_pyaedt' = m.use_pyaedt
  /\ opens' = opens + 1
  /\ ant' = 1
  /\ pc' = "for_ant"
  /\ UNCHANGED <<entry, err, applyVars, llmVars, closes, calls, user_request,
                 use_arg, spec, parsed, antenna_type, freqs, antennas, ant_params,
                 tasks_for_model, built, task_exec, results>>
  /\ UNCHANGED unitVars

\* lines 83-94: design_params and the enriched tasks of the next antenna
RunEnrich ==
  /\ pc = "for_ant"
  /\ ant <= Len(antennas)
  /\ IF DesignParamsRaises(antennas[ant])
     THEN /\ RaiseInSession(Exc("ZeroDivisionError", <<"float division by zero">>))
          /\ UNCHANGED <<ant_params, tasks_for_model, parsed>>
     ELSE LET geometry == DesignParams(antennas[ant])
              r == EnrichTasks(Get(parsed, "tasks").v, geometry, freqs)
          IN  /\ ant_params' = geometry
              /\ parsed' = Put(parsed, "tasks", PyList(r.origs))
              /\ IF r.err # NoErr
                 THEN RaiseInSession(r.err) /\ UNCHANGED tasks_for_model
                 ELSE /\ tasks_for_model' = r.copies
                      /\ pc' = "build"
                      /\ err' = err
  /\ UNCHANGED <<entry, applyVars, llmVars, mgrVars, user_request, use_arg, spec,
                 antenna_type, freqs, antennas, ant, built, task_exec, results>>
  /\ UNCHANGED unitVars

\* line 97
RunBuild ==
  /\ pc = "build"
  /\ built' = BuildDipole(ant_params, use_pyaedt, session)
  /\ calls' = Called("build_dipole")
  /\ pc' = "apply"
  /\ UNCHANGED <<entry, err, applyVars, llmVars, session, use_pyaedt, opens, closes,
                 user_request, use_arg, spec, parsed, antenna_type, freqs,
                 antennas, ant, ant_params, tasks_for_model, task_exec, results>>
  /\ UNCHANGED unitVars

\* line 99: the call of apply_tasks
RunApply ==
  /\ pc = "apply"
  /\ ApplyEnter(tasks_for_model)
  /\ calls' = Called("apply_tasks")
  /\ pc' = "apply_loop"
  /\ UNCHANGED <<entry, err, llmVars, designVars, session, use_pyaedt, opens, closes>>
  /\ UNCHANGED unitVars

\* line 99: apply_tasks returns to run_design
RunApplied ==
  /\ pc = "apply_loop"
  /\ i > Len(tasks)
  /\ entry = "run_design"
  /\ task_exec' = PyDict([status |-> PyStr(status), log |-> PyList(log)])
  /\ pc' = "simulate"
  /\ UNCHANGED <<entry, err, applyVars, llmVars, mgrVars, user_request, use_arg,
                 spec, parsed, antenna_type, freqs, antennas, ant, ant_params,
                 tasks_for_model, built, results>>
  /\ UNCHANGED unitVars

\* lines 101-108
RunSimulate ==
  /\ pc = "simulate"
  /\ calls' = Called("run_simulation")
  /\ results' = Append(results,
                       [type |-> antennas[ant].cls,
                        params |-> ant_params,
                        built |-> built,
                        task_execution |-> task_exec,
                        simulation |-> RunSimulation(built, use_pyaedt, session)])
  /\ ant' = ant + 1
  /\ pc' = "for_ant"
  /\ UNCHANGED <<entry, err, applyVars, llmVars, session, use_pyaedt, opens, closes,
                 user_request, use_arg, spec, parsed, antenna_type, freqs,
                 antennas, ant_params, tasks_for_model, built, task_exec>>
  /\ UNCHANGED unitVars

\* HFSSManager.__exit__, lines 54-62, at the end of the with block or when
\* an exception leaves it; it returns False, so the exception goes on
RunExit ==
  /\ \/ pc = "exit"
     \/ pc = "for_ant" /\ ant > Len(antennas)
  /\ closes' = closes + 1
  /\ session' = None
  /\ pc' = IF err = NoErr THEN "done" ELSE "raised"
  /\ UNCHANGED <<entry, err, applyVars, llmVars, designVars, use_pyaedt, opens, calls>>
  /\ UNCHANGED unitVars

\* lines 75 and 110: the response; it refers to the request and to the
\* generative spec themselves, and results holds its "antennas" list
Response ==
  [request |-> user_request, spec_from_llm |-> parsed, antennas |-> results]

Init ==
  /\ entry = "run_design"
  /\ pc = "parse"
  /\ err = NoErr
  /\ tasks = <<>> /\ i = 1 /\ log = <<>> /\ status = "ok" /\ raised = {}
  /\ user_request \in Requests
  /\ use_arg \in {None, PyBool(TRUE), PyBool(FALSE)}
  /\ InitLocals

Next ==
  \/ RunParse \/ RunGenerate \/ RunLoadJson \/ RunNormalize \/ RunBuildAntennas
  \/ RunOpen \/ RunEnrich \/ RunBuild \/ RunApply \/ ApplyTask \/ RunApplied
  \/ RunSimulate \/ RunExit

Spec == Init /\ [][Next]_vars

(***************************************************************************)
(* The antenna constructors and design_params, called on their own.        *)
(***************************************************************************)
\* the frequencies tried are the multiples of FreqStep (in kHz) from
\* -MaxFreqSteps to MaxFreqSteps steps
FreqStep == 100000

MaxFreqSteps == 30

AntennaFrequencies == {k * FreqStep : k \in (0 - MaxFreqSteps)..MaxFreqSteps}

\* before any operation has run: the locals of run_design and of
\* apply_tasks hold nothing
InitIdle ==
  /\ err = NoErr
  /\ tasks = <<>> /\ i = 1 /\ log = <<>> /\ status = "ok" /\ raised = {}
  /\ use_arg = None
  /\ spec = None /\ raw = None /\ genai = None /\ attempts = <<>>
  /\ parsed = None /\ antenna_type = None /\ freqs = None
  /\ antennas = <<>> /\ ant = 1 /\ ant_params = None
  /\ tasks_for_model = <<>> /\ built = None /\ task_exec = None
  /\ results = <<>>
  /\ session = None /\ use_pyaedt = None
  /\ opens = 0 /\ closes = 0 /\ calls = <<>>

\* Dipole.__init__ (dipole.py lines 22-24) or PatchAntenna.__init__
\* (patch.py lines 15-17) on a number: the object is stored, nothing is
\* checked
AntennaConstruct ==
  /\ pc = "construct"
  /\ antennas' = <<IF cls = "Dipole" THEN Dipole(frequency_hz)
                   ELSE PatchAntenna(frequency_hz)>>
  /\ pc' = "constructed"
  /\ UNCHANGED <<entry, err, applyVars, llmVars, mgrVars, unitVars, user_request,
                 use_arg, spec, parsed, antenna_type, freqs, ant, ant_params,
                 tasks_for_model, built, task_exec, results>>

\* design_params of the object (dipole.py lines 45-56, patch.py lines
\* 19-26): the division by the frequency raises for zero
AntennaDesignParams ==
  /\ pc = "constructed"
  /\ IF DesignParamsRaises(antennas[1])
     THEN /\ pc' = "raised"
          /\ err' = Exc("ZeroDivisionError", <<"float division by zero">>)
          /\ UNCHANGED ant_params
     ELSE /\ pc' = "designed"
          /\ ant_params' = DesignParams(antennas[1])
          /\ UNCHANGED err
  /\ UNCHANGED <<entry, applyVars, llmVars, mgrVars, unitVars, user_request,
                 use_arg, spec, parsed, antenna_type, freqs, antennas, ant,
                 tasks_for_model, built, task_exec, results>>

InitAntenna ==
  /\ entry = "antenna"
  /\ pc = "construct"
  /\ InitIdle
  /\ user_request = None
  /\ cls \in {"Dipole", "PatchAntenna"}
  /\ frequency_hz \in AntennaFrequencies
  /\ again = None
  /\ mock = TRUE /\ app = None /\ session_log = <<>> /\ returned = <<>>

\* design_params called once more on the same object: the method reads
\* the fields of self and assigns none
AntennaDesignParamsAgain ==
  /\ pc = "designed"
  /\ again' = DesignParams(antennas[1])
  /\ pc' = "designed_again"
  /\ UNCHANGED <<entry, err, applyVars, llmVars, mgrVars, designVars, cls,
                 frequency_hz, mock, app, session_log, returned>>

NextAntenna == AntennaConstruct \/ AntennaDesignParams \/ AntennaDesignParamsAgain

SpecAntenna == InitAntenna /\ [][NextAntenna]_vars

(***************************************************************************)
(* Parser.parse, called on its own, twice on the same text.                *)
(***************************************************************************)
\* longest text, in tokens
MaxTokens == 3

\* the tokens of a text: numbers with a unit in either case, a number with
\* a unit that is none of the four, and words
TextTokens ==
  { Freq(24, "GHz"), Freq(50, "ghz"), Freq(9150, "MHz"), Freq(20, "kHz"),
    Freq(30000, "Hz"), Freq(50, "m"), Word("antenna"), Word("patch") }

Texts == SeqsUpTo(TextTokens, MaxTokens)

\* parser.py lines 24-50
ParseOnce ==
  /\ pc = "parser_parse"
  /\ spec' = Parse(user_request)
  /\ pc' = "parsed"
  /\ UNCHANGED <<entry, err, applyVars, llmVars, mgrVars, unitVars, user_request,
                 use_arg, parsed, antenna_type, freqs, antennas, ant, ant_params,
                 tasks_for_model, built, task_exec, results>>

\* the same call once more; the parser holds no state between calls
ParseAgain ==
  /\ pc = "parsed"
  /\ again' = Parse(user_request)
  /\ pc' = "parsed_again"
  /\ UNCHANGED <<entry, err, applyVars, llmVars, mgrVars, designVars, cls,
                 frequency_hz, mock, app, session_log, returned>>

InitParse ==
  /\ entry = "parse"
  /\ pc = "parser_parse"
  /\ InitIdle
  /\ user_request \in Texts
  /\ cls = "none" /\ frequency_hz = 0 /\ again = None
  /\ mock = TRUE /\ app = None /\ session_log = <<>> /\ returned = <<>>

NextParse == ParseOnce \/ ParseAgain

SpecParse == InitParse /\ [][NextParse]_vars

(***************************************************************************)
(* PyAedtSession (src/src/cad/pyaedt_wrapper.py), used on its own: the     *)
(* constructor and __enter__, capability calls, __exit__.                  *)
(***************************************************************************)
\* most capability calls of one session
MaxCalls == 3

\* the backend's application object
HfssApp == [t |-> "HfssApp"]

\* __init__, lines 10-31: use is the use_pyaedt argument, importable says
\* whether ansys.aedt.core imports; module says whether _pyaedt holds it
SessionInit(use, importable) ==
  IF use = None
  THEN [use_pyaedt |-> PyBool(importable), module |-> importable]
  ELSE IF Truthy(use)
  THEN [use_pyaedt |-> IF importable THEN use ELSE PyBool(FALSE),
        module |-> importable]
  ELSE [use_pyaedt |-> use, module |-> FALSE]

\* __enter__, lines 33-53: the fields app and mock afterwards; ctorOk says
\* whether constructing Hfss succeeds
SessionEnter(s, ctorOk) ==
  IF Truthy(s.use_pyaedt) /\ s.module /\ ctorOk
  THEN [app |-> HfssApp, mock |-> FALSE]
  ELSE [app |-> None, mock |-> TRUE]

\* the backend operations of each capability, in the order of the calls
BackendSteps(op) ==
  CASE op = "add_dipole" ->
         <<"create_cylinder", "create_cylinder_2", "create_rectangle",
           "create_lumped_port">>
    [] op = "add_patch" ->
         <<"create_box", "create_rectangle", "assign_perfect_e",
           "create_lumped_port">>
    [] op = "create_setup" -> <<"create_setup", "create_frequency_sweep">>
    [] op = "analyze" -> <<"analyze_setup">>
    [] op = "export_report" -> <<"create_report", "export_report_to_csv">>
    [] OTHER -> <<>>

\* how a capability call can go in real mode: no backend operation raises
\* ("none"), or the named one does
Failures(op) == {"none"} \cup {BackendSteps(op)[k] : k \in 1..Len(BackendSteps(op))}

\* the descriptor of a mocked call
MockDescriptor(op) ==
  CASE op = "add_dipole" ->
         PyDict([name |-> PyStr("dipole_mock"), status |-> PyStr("mocked")])
    [] op = "add_patch" ->
         PyDict([name |-> PyStr("patch_mock"), status |-> PyStr("mocked")])
    [] op = "create_setup" -> PyDict([setup |-> PyStr("Setup1")])
    [] op = "analyze" -> PyDict([status |-> PyStr("mock_solved")])
    [] OTHER -> PyDict([status |-> PyStr("mock_exported")])

\* the descriptor of a call whose backend operations all returned
DoneDescriptor(op) ==
  CASE op = "add_dipole" ->
         PyDict([name |-> PyStr("Dipole"), status |-> PyStr("drawn")])
    [] op = "add_patch" ->
         PyDict([name |-> PyStr("Patch"), status |-> PyStr("drawn")])
    [] op = "create_setup" ->
         PyDict([setup |-> PyStr("Setup1"), status |-> PyStr("created")])
    [] op = "analyze" -> PyDict([status |-> PyStr("solved")])
    [] OTHER -> PyDict([status |-> PyStr("exported")])

ErrorDescriptor == PyDict([status |-> PyStr("error")])

\* the method's except clause sees the failure: a failure of the port
\* creation is caught inside _safe_assign_port (lines 136-146), which
\* prints a warning and returns
CaughtByMethod(op, fail) == fail \notin {"none", "create_lumped_port"}

\* add_dipole, add_patch, create_setup, analyze, export_report: what the
\* call returns
Capability(op, isMock, fail) ==
  IF isMock THEN MockDescriptor(op)
  ELSE IF CaughtByMethod(op, fail) THEN ErrorDescriptor
  ELSE DoneDescriptor(op)

\* a capability call as a step: no method appends to self.log
Call(op, descriptor, fail) ==
  /\ pc = "session_open"
  /\ Len(returned) < MaxCalls
  /\ returned' = Append(returned, [op |-> op, mock |-> mock, raised |-> fail,
                                   descriptor |-> descriptor])
  /\ UNCHANGED <<entry, pc, err, applyVars, llmVars, designVars, mgrVars, cls,
                 frequency_hz, again, mock, app, session_log>>

\* PyAedtSession(...) and __enter__
SessionOpen ==
  /\ pc = "session_new"
  /\ \E use \in {None, PyBool(TRUE), PyBool(FALSE)}, importable \in BOOLEAN,
        ctorOk \in BOOLEAN :
       LET e == SessionEnter(SessionInit(use, importable), ctorOk)
       IN  app' = e.app /\ mock' = e.mock
  /\ session_log' = <<>>
  /\ pc' = "session_open"
  /\ UNCHANGED <<entry, err, applyVars, llmVars, designVars, mgrVars, cls,
                 frequency_hz, again, returned>>

\* lines 64-89
AddDipole ==
  \E fail \in (IF mock THEN {"none"} ELSE Failures("add_dipole")) :
    Call("add_dipole", Capability("add_dipole", mock, fail), fail)

\* lines 91-132
AddPatch ==
  \E fail \in (IF mock THEN {"none"} ELSE Failures("add_patch")) :
    Call("add_patch", Capability("add_patch", mock, fail), fail)

\* lines 148-149: no backend call, the same descriptor in both modes
AssignPort ==
  Call("assign_port", PyDict([status |-> PyStr("done")]), "none")

\* lines 151-175
CreateSetup ==
  \E fail \in (IF mock THEN {"none"} ELSE Failures("create_setup")) :
    Call("create_setup", Capability("create_setup", mock, fail), fail)

\* lines 177-185
Analyze ==
  \E fail \in (IF mock THEN {"none"} ELSE Failures("analyze")) :
    Call("analyze", Capability("analyze", mock, fail), fail)

\* lines 187-208
ExportReport ==
  \E fail \in (IF mock THEN {"none"} ELSE Failures("export_report")) :
    Call("export_report", Capability("export_report", mock, fail), fail)

\* __exit__, lines 55-61: save_project, whose failure is dropped
SessionExit ==
  /\ pc = "session_open"
  /\ pc' = "session_closed"
  /\ UNCHANGED <<entry, err, applyVars, llmVars, designVars, mgrVars, unitVars>>

InitSession ==
  /\ entry = "session"
  /\ pc = "session_new"
  /\ InitIdle
  /\ user_request = None
  /\ cls = "none" /\ frequency_hz = 0 /\ again = None
  /\ mock = TRUE /\ app = None /\ session_log = <<>> /\ returned = <<>>

NextSession ==
  \/ SessionOpen \/ AddDipole \/ AddPatch \/ AssignPort \/ CreateSetup
  \/ Analyze \/ ExportReport \/ SessionExit

SpecSession == InitSession /\ [][NextSession]_vars

(***************************************************************************)
(* Claims about apply_tasks, checked under SpecApply.                      *)
(***************************************************************************)
ApplyOver == pc \in {"apply_returned", "apply_raised"}

AllMappings == \A k \in 1..Len(tasks) : IsDict(tasks[k])

\* C1: for every task list, apply_tasks returns a status, and that status
\* is "error" if and only if processing at least one task raised, "ok"
\* otherwise.
C1_StatusErrorIffRaised ==
  ApplyOver =>
    /\ pc = "apply_returned"
    /\ status = (IF raised # {} THEN "error" ELSE "ok")

\* C2: when processing a task raises, apply_tasks itself does not raise:
\* the call returns with status "error", one record per task, and an
\* error-marked record at the place of every task that raised.
C2_RaiseCaughtPerTask ==
  (ApplyOver /\ raised # {}) =>
    /\ pc = "apply_returned"
    /\ status = "error"
    /\ Len(log) = Len(tasks)
    /\ \A k \in raised : "error" \in DOMAIN log[k]

\* C3: for a list of task mappings, the log grows in list order: after k
\* iterations it holds k records, record k carries the id and the action
\* of task k whatever the ids are, and the call returns n records for n
\* tasks.
C3_LogInListOrder ==
  AllMappings =>
    /\ pc # "apply_raised"
    /\ Len(log) = i - 1
    /\ \A k \in 1..Len(log) :
         /\ log[k].id = Get(tasks[k], "id")
         /\ log[k].action = Get(tasks[k], "action")
    /\ (pc = "apply_returned" => Len(log) = Len(tasks))

\* C3 witness: a returned call on two mappings whose ids descend and
\* whose actions differ
C3_Witness ==
  /\ pc = "apply_returned"
  /\ Len(tasks) = 2
  /\ AllMappings
  /\ Get(tasks[1], "id") = PyInt(5)
  /\ Get(tasks[2], "id") = PyInt(1)
  /\ Get(tasks[1], "action") # Get(tasks[2], "action")

\* the result text the closed vocabulary gives each of its fourteen
\* strings, "" for any other string
C4_ClassText(s) ==
  CASE s \in {"create_substrate", "create_patch", "create_dipole", "model"} ->
         "Geometry created: "
    [] s \in {"assign_excitation", "assign_port"} -> "Excitation assigned: "
    [] s \in {"assign_boundary", "assign_perfect_e"} -> "Boundary assigned: "
    [] s \in {"create_setup", "analysis_setup"} -> "Setup created: "
    [] s \in {"analyze", "solve"} -> "Simulation executed (Mock)"
    [] s \in {"export_report", "postprocess"} -> "Data exported (S11.csv)"
    [] OTHER -> ""

\* C4: a task mapping's action is recognised exactly when it is one of the
\* fourteen vocabulary strings, and then the record carries the result of
\* its class; any other action, a missing one included, gives a record
\* marked "Unknown action" that keeps the id and the action, and a list of
\* mappings never raises and leaves the status "ok".
C4_ClosedVocabulary ==
  /\ \A k \in 1..Len(log) :
       IsDict(tasks[k]) =>
         LET a == Get(tasks[k], "action")
             known == a.t = "str" /\ C4_ClassText(a.v) # ""
         IN  /\ log[k].id = Get(tasks[k], "id")
             /\ log[k].action = a
             /\ known => log[k].result[1] = C4_ClassText(a.v)
             /\ ~known => log[k].result = <<"Unknown action ", a>>
  /\ AllMappings => (status = "ok" /\ pc # "apply_raised")

\* C4 witness: a returned call that met a missing action and an action of
\* the vocabulary
C4_Witness ==
  /\ pc = "apply_returned"
  /\ Len(log) = 2
  /\ log[1].action = None
  /\ log[1].result = <<"Unknown action ", None>>
  /\ log[2].action = PyStr("model")
  /\ log[2].result[1] = "Geometry created: "
  /\ status = "ok"

(***************************************************************************)
(* Claims about run_design, checked under Spec.                            *)
(***************************************************************************)
RunOver == pc \in {"done", "raised"}

\* C5: a run opens at most one session and exactly one once it is past
\* the open; every manager call meets that session open (entered once,
\* not yet exited, a session held); when the run is over, on a normal
\* return as on an exception, every session entered was exited exactly
\* once and the manager holds no session.
C5_SessionScoped ==
  /\ opens <= 1
  /\ closes <= opens
  /\ pc \in {"for_ant", "build", "apply", "apply_loop", "simulate", "exit", "done"}
       => opens = 1
  /\ pc \in {"for_ant", "build", "apply", "apply_loop", "simulate", "exit"}
       => (closes = 0 /\ session # None)
  /\ \A k \in 1..Len(calls) :
       calls[k].opens = 1 /\ calls[k].closes = 0 /\ calls[k].session # None
  /\ RunOver => (closes = opens /\ session = None)

\* C5 witness: an exception raised while the session was open has left
\* run_design, and the session is closed
C5_Witness ==
  /\ pc = "raised"
  /\ opens = 1
  /\ closes = 1
  /\ session = None

\* the tasks field of the generative output is missing, empty or no list
TasksUnusable(obj) ==
  LET ts == Get(obj, "tasks") IN ~IsList(ts) \/ Len(ts.v) = 0

C7_FrequencyResolution ==
  pc = "done" =>
    LET g == Get(parsed, "frequencies_hz")
        q == Get(spec, "frequencies_hz")
    IN  /\ freqs = (IF Truthy(g) THEN (IF g.t = "int" THEN PyList(<<g>>) ELSE g)
                    ELSE IF Truthy(q) THEN q
                    ELSE PyList(<<PyInt(2400000)>>))
        /\ Len(results) >= 1

\* C8: once the generative adapter has returned a value, run_design raises
\* nothing, whatever the shape of the value.
C8_ResponseWheneverGenerated ==
  parsed # None => (pc # "raised" /\ err = NoErr)

\* the provider was called and no call returned
ProviderFailed ==
  /\ attempts # <<>>
  /\ attempts[Len(attempts)].raised

C10_PatchIffContainsPatch ==
  \A k \in 1..Len(antennas) :
    antennas[k].cls =
      (IF Contains(Lower(antenna_type.v), "patch") THEN "PatchAntenna" ELSE "Dipole")

\* C11: the antenna type is the generative output's when it holds one, else
\* the parser's hint when the request gave one, else "dipole"; a hint never
\* replaces a type the generative output holds.
C11_TypePrecedence ==
  antenna_type # None =>
    LET hint == spec.v["antenna_type"]
    IN  antenna_type =
          (IF "antenna_type" \in DOMAIN parsed.v THEN parsed.v["antenna_type"]
           ELSE IF hint # None THEN hint
           ELSE PyStr("dipole"))

\* C11 witness: a finished run whose request hinted at a patch and whose
\* generative output asked for a dipole
C11_Witness ==
  /\ pc = "done"
  /\ spec.v["antenna_type"] = PyStr("patch")
  /\ Get(parsed, "antenna_type") = PyStr("dipole")
  /\ antenna_type = PyStr("dipole")
  /\ Len(results) >= 1

\* C12: every antenna was constructed from a strictly positive frequency,
\* and every wavelength computation was given one.
C12_OnlyPositiveFrequencies ==
  /\ \A k \in 1..Len(antennas) : antennas[k].frequency_hz > 0
  /\ ant_params # None => ant_params.v["frequency_hz"].v > 0

\* the frequencies run_design instantiates an antenna for: the entries of
\* the list it iterates that pass `if not f`
InstantiatedFrequencies ==
  SelectSeq(IF Truthy(freqs) THEN freqs.v ELSE <<Get(parsed, "frequency_hz")>>,
            LAMBDA f : Truthy(f))

C16_ExtractionRecoversOrReports ==
  /\ \A r \in RawTexts :
       /\ ( /\ Cardinality({k \in 1..Len(r) : r[k] = "OBJ"}) = 1
            /\ \A k \in 1..Len(r) : r[k] \in {"OBJ", "prose", "fence"} )
            => ExtractJson(r) = [err |-> NoErr, text |-> <<"OBJ">>]
       /\ (\A k \in 1..Len(r) : ~OpensBrace(r[k]) /\ ~ClosesBrace(r[k]))
            => ExtractJson(r).err # NoErr
  /\ (pc = "raised" /\ raw # None) =>
       (Len(err.msg) >= 2 /\ err.msg[2] = raw.v)

\* C17: the step that enriches the tasks of one antenna is additive: every
\* key a task's params held before the step is in the merged params with
\* the value it had, a key named like a derived key included, and a task
\* that had no params gets at most the derived keys.
C17_MergeAdditive ==
  [][ (pc = "for_ant" /\ pc' = "build") =>
        \A k \in 1..Len(tasks_for_model') :
          LET before == Get(Get(parsed, "tasks").v[k], "params")
              merged == Get(tasks_for_model'[k], "params")
          IN  IF IsDict(before)
              THEN \A key \in DOMAIN before.v :
                     key \in DOMAIN merged.v /\ merged.v[key] = before.v[key]
              ELSE before = None =>
                     (merged = None
                        \/ DOMAIN merged.v \subseteq {"geometry", "frequency_hz_list"})
    ]_vars

\* C20: while a session is open, the descriptor build_dipole returned in
\* it carries the flag built_in_hfss true only if the session is the
\* backend's; with the mock stand-in the flag is false; and all the
\* descriptors of a run carry the same flag.
C20_FlagOnlyWithRealSession ==
  /\ (built # None /\ session # None) =>
       (Truthy(built.v["built_in_hfss"]) <=> session = HfssSession)
  /\ \A k \in 1..Len(results) :
       results[k].built.v["built_in_hfss"] = results[1].built.v["built_in_hfss"]

\* the position of a call shape in the priority order
ShapeRank(shape) == CHOOSE k \in 1..Len(Shapes) : Shapes[k] = shape

\* C22: generate attempts the shapes the package exposes in priority
\* order; a shape that raises is followed by the next exposed shape; the
\* call fails only when every exposed shape was attempted, and returns
\* text as soon as an exposed shape gives some.
C22_FallbackThroughShapes ==
  genai # None =>
    LET exposed == {sh \in ShapeSet : genai.shape[sh] # "absent"}
        tried == {attempts[k].shape : k \in 1..Len(attempts)}
        gives == {sh \in exposed : genai.shape[sh] \in {"ok", "TypeError_ok"}}
    IN  /\ tried \subseteq exposed
        /\ \A j, k \in 1..Len(attempts) :
             j < k => ShapeRank(attempts[j].shape) < ShapeRank(attempts[k].shape)
        /\ pc = "raised" => tried = exposed
        /\ (gives # {} /\ genai.importable /\ genai.provider = "gemini")
             => raw # None

\* C23: once the generative adapter has returned the spec, no step of
\* run_design changes it: its tasks and their params stay what the adapter
\* returned, so the spec reported in the response is the adapter's.
C23_SpecNotModified ==
  [][ parsed # None => parsed' = parsed ]_vars

\* C24: in every antenna entry of the response the built descriptor names
\* the topology of the entry's variant: a patch for a PatchAntenna, a
\* dipole for a Dipole.
C24_BuiltMatchesVariant ==
  \A k \in 1..Len(results) :
    results[k].built.v["type"] =
      (IF results[k].type = "PatchAntenna" THEN PyStr("patch") ELSE PyStr("dipole"))

(***************************************************************************)
(* Claims about the antenna constructors, checked under SpecAntenna.       *)
(***************************************************************************)
\* C13: a constructor called with a frequency that is zero or negative
\* raises and leaves no antenna object.
C13_NonPositiveRejected ==
  (pc # "construct" /\ frequency_hz <= 0) =>
    (pc = "raised" /\ antennas = <<>>)

\* C21: for a positive frequency f (kHz) the dipole's parameters are the
\* wavelength c/f (micrometres, rounded down), half of it times the
\* correction 0.95 as length and 0.005 of it as radius; the patch's are the
\* width (c/(2f)) * sqrt(2/(1 + 4.4)) and 0.95 of the width as length; a
\* second call returns the same values and the object keeps its fields.
C21_DesignFormulas ==
  (pc \in {"designed", "designed_again"} /\ frequency_hz > 0) =>
    LET f == frequency_hz
        p == ant_params.v
    IN  /\ p["frequency_hz"] = PyInt(f)
        /\ cls = "Dipole" =>
             LET w == p["wavelength_m"].v
             IN  /\ w \div 1000 = c \div f
                 /\ f % 1000 = 0 => w = c \div (f \div 1000)
                 /\ p["length_m"].v = (w * 95) \div 200
                 /\ p["radius_m"].v = (w * 5) \div 1000
                 /\ p["correction"] = PyInt(95)
                 /\ antennas[1] = [cls |-> "Dipole", frequency_hz |-> f,
                                   correction |-> 95]
        /\ cls = "PatchAntenna" =>
             LET half == IF f % 500 = 0 THEN c \div (f \div 500)
                         ELSE p["width_m"].v
                 root == CHOOSE r \in 0..1000 :
                           /\ r * r * 54 <= 20000000
                           /\ (r + 1) * (r + 1) * 54 > 20000000
                 W == p["width_m"].v
             IN  /\ f % 500 = 0 => W = (half * root) \div 1000
                 /\ W > 0
                 /\ p["length_m"].v = (W * 95) \div 100
                 /\ p["eps_r"] = PyInt(44)
                 /\ antennas[1] = [cls |-> "PatchAntenna", frequency_hz |-> f,
                                   eps_r |-> 44]
        /\ pc = "designed_again" => again = ant_params

\* C21 witness: design_params was called twice on a dipole
\* of a positive frequency
C21_Witness ==
  /\ pc = "designed_again"
  /\ frequency_hz > 0
  /\ cls = "Dipole"
  /\ again.v["length_m"].v > 0
  /\ again.v["length_m"].v < again.v["wavelength_m"].v

(***************************************************************************)
(* Claims about Parser.parse, checked under SpecParse.                     *)
(***************************************************************************)
\* the tokens of the request that are a number followed by one of the four
\* units, in upper, lower or mixed case
UnitTokens ==
  SelectSeq(user_request,
            LAMBDA tok : /\ "unit" \in DOMAIN tok
                         /\ tok.unit \in {"GHz", "ghz", "MHz", "mhz", "kHz", "khz",
                                          "Hz", "hz"})

\* C15: parse returns one frequency per unit token, in the order of the
\* text and with duplicates kept, each the token's number times the factor
\* of its unit (frequencies in kHz, numbers in tenths); a text without unit
\* token gives the empty list; parsing the text again gives the same list.
C15_FrequenciesInTextOrder ==
  pc \in {"parsed", "parsed_again"} =>
    LET fs == spec.v["frequencies_hz"].v
    IN  /\ err = NoErr
        /\ Len(fs) = Len(UnitTokens)
        /\ \A k \in 1..Len(fs) :
             LET tok == UnitTokens[k]
             IN  CASE tok.unit \in {"GHz", "ghz"} -> fs[k].v * 10 = tok.num10 * 1000000
                   [] tok.unit \in {"MHz", "mhz"} -> fs[k].v * 10 = tok.num10 * 1000
                   [] tok.unit \in {"kHz", "khz"} -> fs[k].v * 10 = tok.num10
                   [] OTHER -> fs[k].v * 10000 = tok.num10
        /\ pc = "parsed_again" => again.v["frequencies_hz"] = spec.v["frequencies_hz"]

\* C15 witness: "2.4GHz 5 ghz 2.4GHz" parsed twice
C15_Witness ==
  /\ pc = "parsed_again"
  /\ user_request = <<Freq(24, "GHz"), Freq(50, "ghz"), Freq(24, "GHz")>>
  /\ spec.v["frequencies_hz"] =
       PyList(<<PyInt(2400000), PyInt(5000000), PyInt(2400000)>>)
  /\ again = spec

(***************************************************************************)
(* Claims about PyAedtSession, checked under SpecSession.                  *)
(***************************************************************************)
\* C18: the session log records every capability call: in mock mode it
\* holds one record per call made, in call order; in real mode it holds
\* one error-marked record per call in which a backend operation raised.
C18_LogRecordsEveryCall ==
  /\ mock =>
       /\ Len(session_log) = Len(returned)
       /\ \A k \in 1..Len(session_log) : session_log[k].op = returned[k].op
  /\ ~mock =>
       Cardinality({k \in 1..Len(session_log) : "error" \in DOMAIN session_log[k]})
         = Cardinality({k \in 1..Len(returned) : returned[k].raised # "none"})

\* C19: in real mode a capability call in which a backend operation raised
\* returns the error-shaped descriptor, whichever operation it was; no
\* call raises, and calls go on after a failed one.
C19_BackendErrorsBecomeDescriptors ==
  /\ pc # "raised"
  /\ err = NoErr
  /\ \A k \in 1..Len(returned) :
       (~returned[k].mock /\ returned[k].raised # "none")
         => Get(returned[k].descriptor, "status") = PyStr("error")

=============================================================================
